---- MODULE Spec2Model ----
(***************************************************************************)
(* The game-creation session of stat-attack: CreateGamePage owns the      *)
(* statsConfig (selected / deselected key lists of the namespaces info,   *)
(* hitting and pitching) and mounts PlayerStats in author mode            *)
(* (configurable = true).  PlayerStats loads the athlete's records,       *)
(* initializes the lists and changes them through toggleAttribute and     *)
(* handleToggleAll, all by way of the onStatsChange callback.             *)
(***************************************************************************)
EXTENDS Integers, Sequences, FiniteSets, TLC

VARIABLES
    selectedPlayer,   \* CreateGamePage: id of the selected athlete, NoPlayer before any
    statsConfig,      \* CreateGamePage: namespace -> [selected, deselected] (arrays)
    playerInfo,       \* PlayerStats: <<>> for null, <<record>> once loaded
    hittingStats,     \* PlayerStats: sequence of season records
    pitchingStats,    \* PlayerStats: sequence of season records
    isLoading,        \* PlayerStats
    error,            \* PlayerStats: NoError for null, else the message
    loads,            \* loadPlayerData calls awaiting fetchPlayerData, in start order
    loaded,           \* history: the athlete whose records the component holds
    ops,              \* number of toggle operations performed so far
    last,             \* history: the operation that produced this state
    stats,            \* useRevealedStats: the selected list the hook is handed
    newlyRevealed,    \* useRevealedStats: the reveal set (state of the hook)
    timeoutRef,       \* useRevealedStats: handle of the last timer armed, NoTimer before
    previousStatsRef, \* useRevealedStats: the keys seen at the last run of the effect
    timers,           \* the runtime: handles of the timers that are pending
    armed,            \* the runtime: number of timers created so far
    revealLast,       \* history: the step of the hook that produced this state
    view,             \* one render of PlayerStats: its props, record and key lists
    open,             \* PlayerSearch: the result list is shown
    search,           \* PlayerSearch: the text of the input, a sequence of characters
    players,          \* PlayerSearch: the result list (player ids)
    loading,          \* PlayerSearch
    requests,         \* searchPlayers calls awaiting the provider, in start order
    sent,             \* number of requests sent to the provider so far
    picked,           \* the player last handed to onPlayerSelect, NoPlayer before
    searchLast,       \* history: the step of PlayerSearch that produced this state
    user_guesses,     \* the table user_guesses of the persistence provider (rows)
    response,         \* guesses endpoint: the response to the last request
    guessLast,        \* history: the last request to the guesses endpoint
    link,             \* CreateGamePage: NoLink for '', else the number of the linked game
    saves,            \* saveGameConfiguration calls awaiting the answer of /api/games
    games,            \* the game configurations the persistence provider has stored
    cells             \* one render of PlayerStats for two athletes: props, records, output

sessionVars == <<selectedPlayer, statsConfig, playerInfo, hittingStats, pitchingStats,
                 isLoading, error, loads, loaded, ops, last>>
revealVars == <<stats, newlyRevealed, timeoutRef, previousStatsRef, timers, armed,
                revealLast>>

viewVars == <<view>>
searchVars == <<open, search, players, loading, requests, sent, picked, searchLast>>

guessVars == <<user_guesses, response, guessLast>>

saveVars == <<link, saves, games>>
sessionVarsButLast == <<selectedPlayer, statsConfig, playerInfo, hittingStats, pitchingStats,
                        isLoading, error, loads, loaded, ops>>

cellVars == <<cells>>

vars == <<sessionVars, revealVars, viewVars, searchVars, guessVars, saveVars, cellVars>>

\* What a step of the creation session leaves alone
outsideSession == <<revealVars, viewVars, searchVars, guessVars, saveVars, cellVars>>
\* What a step of useRevealedStats leaves alone
outsideReveal == <<sessionVars, viewVars, searchVars, guessVars, saveVars, cellVars>>
\* What a render leaves alone
outsideView == <<sessionVars, revealVars, searchVars, guessVars, saveVars, cellVars>>
\* What a step of PlayerSearch leaves alone
outsideSearch == <<sessionVars, revealVars, viewVars, guessVars, saveVars, cellVars>>
\* What a request to the guesses endpoint leaves alone
outsideGuesses == <<sessionVars, revealVars, viewVars, searchVars, saveVars, cellVars>>
\* What the render of the cells leaves alone
outsideCells == <<sessionVars, revealVars, viewVars, searchVars, guessVars, saveVars>>
\* What a save of the game configuration leaves alone, beside the session
outsideSave == <<revealVars, viewVars, searchVars, guessVars, cellVars>>

(***************************************************************************)
(* Bounds of the model.                                                    *)
(***************************************************************************)
\* loadPlayerData calls that may await their response at the same time
MaxLoads == 2
\* toggle operations (Toggle, ToggleAll) of one creation session
MaxOps == 2
\* timers one instance of useRevealedStats may arm
MaxTimers == 3
\* largest order value of a display-mapping entry
MaxOrder == 2
\* search requests one PlayerSearch sends
MaxRequests == 3
\* rows the table user_guesses may hold
MaxGuesses == 2
\* saveGameConfiguration calls of one creation session
MaxSaves == 2

(***************************************************************************)
(* Constants of the program and of its environment.                        *)
(***************************************************************************)
Namespaces == {"info", "hitting", "pitching"}
NoPlayer == 0
Athletes == {1, 2}
NoError == "null"
\* PlayerStats is mounted by CreateGamePage with configurable={true}
configurable == TRUE
\* timeoutRef.current before any timer was armed (undefined)
NoTimer == 0
\* link before any game was saved ('')
NoLink == 0

\* The display-mapping tables of utils/statMappings: key -> StatMapping.
\* hasOrder = FALSE stands for a mapping entry without an order field.
playerInfoMappings ==
    [k \in {"age", "team", "teamDetails"} |->
        CASE k = "age" -> [hasOrder |-> TRUE, order |-> 1]
          [] k = "team" -> [hasOrder |-> TRUE, order |-> 2]
          [] OTHER -> [hasOrder |-> FALSE, order |-> 0]]

hittingStatMappings ==
    [k \in {"avg"} |-> [hasOrder |-> TRUE, order |-> 1]]

pitchingStatMappings ==
    [k \in {"era"} |-> [hasOrder |-> TRUE, order |-> 1]]

\* What the Statistics Provider returns for an athlete.  A record is given
\* by the sequence of its keys, in Object.keys order.  Athlete 1 is a
\* hitter, athlete 2 a pitcher whose biography has no teamDetails and no age
\* but a key ("imageUrl") that has no display mapping.
fetchPlayerData(playerId) ==
    IF playerId = 1
    THEN [playerInfo |-> <<"age", "team", "teamDetails">>,
          hittingStats |-> << <<"avg", "xbh">>, <<"avg">> >>,
          pitchingStats |-> << >>]
    ELSE [playerInfo |-> <<"imageUrl", "team">>,
          hittingStats |-> << >>,
          pitchingStats |-> << <<"era">> >>]

\* The keys a toggle callback may be handed for a namespace.  The callbacks
\* are props of the child components (ConfigurableHeader, SectionToggle) and
\* take any key: the universe holds mapped and unmapped keys, and keys that
\* the loaded record does not have.
KeyUniverse(type) ==
    CASE type = "info" -> {"age", "team", "teamDetails"}
      [] type = "hitting" -> {"avg", "xbh"}
      [] OTHER -> {"era"}

\* A fixed enumeration order of the keys, to write a key set as an array
KeyOrder == <<"age", "team", "teamDetails", "imageUrl", "avg", "xbh", "era">>

(***************************************************************************)
(* Arrays.                                                                 *)
(***************************************************************************)
includes(arr, x) == \E i \in DOMAIN arr : arr[i] = x

ToSet(arr) == {arr[i] : i \in DOMAIN arr}

AsArray(S) == SelectSeq(KeyOrder, LAMBDA k : k \in S)

(***************************************************************************)
(* CreateGamePage.                                                         *)
(***************************************************************************)
\* handleStatsChange without the spread of prev: the other namespaces are reset
handleStatsChangeNoSpread(prev, type, selected, deselected) ==
    [ns \in Namespaces |->
        IF ns = type
        THEN [selected |-> selected, deselected |-> deselected]
        ELSE [selected |-> <<>>, deselected |-> <<>>]]

\* setStatsConfig(prev => ({...prev, [type]: {selected, deselected}}))
handleStatsChange(prev, type, selected, deselected) ==
    [prev EXCEPT ![type] = [selected |-> selected, deselected |-> deselected]]

(***************************************************************************)
(* PlayerStats: the pure helpers.                                          *)
(***************************************************************************)
\* mappings[String(key)]?.order || 0
orderOf(mappings, key) ==
    IF mappings[key].hasOrder THEN mappings[key].order ELSE 0

\* Array.prototype.sort is stable: a key goes behind the keys that compare equal
RECURSIVE insertByOrder(_, _, _)
insertByOrder(sorted, key, mappings) ==
    IF sorted = <<>>
    THEN <<key>>
    ELSE IF orderOf(mappings, Head(sorted)) - orderOf(mappings, key) <= 0
         THEN <<Head(sorted)>> \o insertByOrder(Tail(sorted), key, mappings)
         ELSE <<key>> \o sorted

RECURSIVE sortByOrder(_, _)
sortByOrder(arr, mappings) ==
    IF arr = <<>>
    THEN <<>>
    ELSE insertByOrder(sortByOrder(SubSeq(arr, 1, Len(arr) - 1), mappings),
                       arr[Len(arr)], mappings)

\* obj is a record, given by its keys
getSortedKeys(obj, mappings) ==
    sortByOrder(SelectSeq(obj, LAMBDA key : key \in DOMAIN mappings), mappings)

\* filterVisibleStats of a component with the props conf (configurable) and
\* showAll (showAllStats); the record is given by its keys
filterVisibleStats(conf, showAll, obj, selectedKeys) ==
    IF conf \/ showAll
    THEN obj
    ELSE SelectSeq(obj, LAMBDA key :
            \/ includes(selectedKeys, key)
            \/ key = "teamDetails" /\ includes(selectedKeys, "team"))

\* getVisibleKeys whose restricted branch keeps teamDetails
getVisibleKeysKeepDetails(conf, showAll, allKeys, selected, deselected) ==
    IF conf \/ showAll
    THEN SelectSeq(allKeys, LAMBDA key : key # "teamDetails")
    ELSE SelectSeq(allKeys, LAMBDA key : includes(selected, key))

\* getVisibleKeys that shows the selected keys in every mode
getVisibleKeysSelectedOnly(conf, showAll, allKeys, selected, deselected) ==
    SelectSeq(allKeys, LAMBDA key : includes(selected, key) /\ key # "teamDetails")

\* getVisibleKeys of a component with the props conf and showAll
getVisibleKeys(conf, showAll, allKeys, selected, deselected) ==
    IF conf \/ showAll
    THEN SelectSeq(allKeys, LAMBDA key : key # "teamDetails")
    ELSE SelectSeq(allKeys, LAMBDA key : includes(selected, key) /\ key # "teamDetails")

\* toggleAttribute without the team / teamDetails pairing
toggleAttributeUnpaired(attribute, selected0, deselected0) ==
    IF includes(selected0, attribute)
    THEN [selected |-> SelectSeq(selected0, LAMBDA attr : attr # attribute),
          deselected |-> Append(deselected0, attribute)]
    ELSE [selected |-> Append(selected0, attribute),
          deselected |-> SelectSeq(deselected0, LAMBDA attr : attr # attribute)]

\* The body of toggleAttribute up to its call of onStatsChange: the new lists
toggleAttribute(attribute, selected0, deselected0) ==
    IF includes(selected0, attribute)
    THEN LET selected == SelectSeq(selected0, LAMBDA attr : attr # attribute)
             deselected == Append(deselected0, attribute)
         IN  IF attribute = "team"
             THEN [selected |-> SelectSeq(selected, LAMBDA attr : attr # "teamDetails"),
                   deselected |-> IF ~includes(deselected, "teamDetails")
                                  THEN Append(deselected, "teamDetails")
                                  ELSE deselected]
             ELSE [selected |-> selected, deselected |-> deselected]
    ELSE LET deselected == SelectSeq(deselected0, LAMBDA attr : attr # attribute)
             selected == Append(selected0, attribute)
         IN  IF attribute = "team"
             THEN [selected |-> IF ~includes(selected, "teamDetails")
                                THEN Append(selected, "teamDetails")
                                ELSE selected,
                   deselected |-> SelectSeq(deselected, LAMBDA attr : attr # "teamDetails")]
             ELSE [selected |-> selected, deselected |-> deselected]

\* allKeys of handleToggleAll, read from the component's loaded records
allKeysOf(type) ==
    IF type = "info" /\ playerInfo # <<>>
    THEN getSortedKeys(playerInfo[1], playerInfoMappings)
    ELSE IF type = "hitting" /\ Len(hittingStats) > 0
    THEN getSortedKeys(hittingStats[1], hittingStatMappings)
    ELSE IF type = "pitching" /\ Len(pitchingStats) > 0
    THEN getSortedKeys(pitchingStats[1], pitchingStatMappings)
    ELSE <<>>

\* deselectedKeys of handleToggleAll without the rule for "team"
deselectedKeysOfUnpaired(allKeys, selectedKeys) ==
    IF Len(selectedKeys) = 0
    THEN allKeys
    ELSE SelectSeq(allKeys, LAMBDA key : ~includes(selectedKeys, key))

\* deselectedKeys of handleToggleAll
deselectedKeysOf(allKeys, selectedKeys) ==
    IF Len(selectedKeys) = 0
    THEN allKeys
    ELSE LET deselectedKeys == SelectSeq(allKeys, LAMBDA key : ~includes(selectedKeys, key))
         IN  IF includes(selectedKeys, "team")
             THEN SelectSeq(deselectedKeys, LAMBDA key : key # "teamDetails")
             ELSE deselectedKeys

\* The initialization of loadPlayerData after a successful fetch: the
\* onStatsChange calls, applied in order.  load holds what the closure of
\* the effect captured when the load was started.
\* infoInit with the lists swapped: every key selected, as PlayerStats once did
infoInitAllSelected(config, data) ==
    IF configurable
    THEN handleStatsChange(config, "info", data.playerInfo, <<>>)
    ELSE config

infoInit(config, data) ==
    IF configurable
    THEN handleStatsChange(config, "info", <<>>, data.playerInfo)
    ELSE config

hittingInit(config, data, load) ==
    IF configurable /\ Len(data.hittingStats) > 0 /\ load.hittingEmpty
    THEN handleStatsChange(config, "hitting",
             SelectSeq(data.hittingStats[1], LAMBDA key : key \in DOMAIN hittingStatMappings),
             <<>>)
    ELSE config

pitchingInit(config, data, load) ==
    IF configurable /\ Len(data.pitchingStats) > 0 /\ load.pitchingEmpty
    THEN handleStatsChange(config, "pitching",
             SelectSeq(data.pitchingStats[1], LAMBDA key : key \in DOMAIN pitchingStatMappings),
             <<>>)
    ELSE config

initialize(config, data, load) ==
    pitchingInit(hittingInit(infoInit(config, data), data, load), data, load)

\* PlayerStats renders its grid and tables (and so offers the toggles) only
\* past the isLoading, error and !playerInfo returns
rendered == ~isLoading /\ error = NoError /\ playerInfo # <<>>

isEmpty(state) == Len(state.selected) = 0 /\ Len(state.deselected) = 0

RemoveAt(seq, i) == SubSeq(seq, 1, i - 1) \o SubSeq(seq, i + 1, Len(seq))

(***************************************************************************)
(* The state machine.                                                      *)
(***************************************************************************)
\* last: the operation (op) with its arguments (type, key, keys, player), the
\* lists (prev) and the athlete on display (loaded) before it, and for a
\* resolved load whether it had raced another load of the same athlete
NoOp == [op |-> "none", type |-> "-", key |-> "-", keys |-> <<>>, player |-> NoPlayer,
         raced |-> FALSE, loaded |-> NoPlayer, pending |-> <<>>,
         prev |-> [type \in Namespaces |-> [selected |-> <<>>, deselected |-> <<>>]]]

\* The creation session before any athlete is selected
InitSession ==
    /\ selectedPlayer = NoPlayer
    /\ statsConfig = [type \in Namespaces |-> [selected |-> <<>>, deselected |-> <<>>]]
    /\ playerInfo = <<>>
    /\ hittingStats = <<>>
    /\ pitchingStats = <<>>
    /\ isLoading = TRUE
    /\ error = NoError
    /\ loads = <<>>
    /\ loaded = NoPlayer
    /\ ops = 0
    /\ last = NoOp

NoReveal == [op |-> "none", prevStats |-> <<>>, prevRevealed |-> {}, prevTimers |-> {},
             prevRef |-> NoTimer, fired |-> NoTimer]

\* useRevealedStats after the mount with the list initial: the first effect
\* sets isMountedRef and previousStatsRef, the second then finds no new key
InitReveal(initial) ==
    /\ stats = initial
    /\ newlyRevealed = {}
    /\ timeoutRef = NoTimer
    /\ previousStatsRef = ToSet(initial)
    /\ timers = {}
    /\ armed = 0
    /\ revealLast = NoReveal

\* No render taken yet
NoView == [configurable |-> configurable, showAllStats |-> FALSE, type |-> "info",
           obj |-> <<>>, mappings |-> playerInfoMappings, selected |-> <<>>,
           deselected |-> <<>>, sortedKeys |-> <<>>, visibleKeys |-> <<>>,
           done |-> FALSE]

NoSearch == [op |-> "none", value |-> <<>>, prevPlayers |-> <<>>, prevSent |-> 0,
             prevRequests |-> <<>>]

\* PlayerSearch after its mount
InitSearch ==
    /\ open = FALSE
    /\ search = <<>>
    /\ players = <<>>
    /\ loading = FALSE
    /\ requests = <<>>
    /\ sent = 0
    /\ picked = NoPlayer
    /\ searchLast = NoSearch

\* A field of a request that is absent (undefined); a present value v is <<v>>
Absent == <<>>

NoRequest == [method |-> "none", body |-> [game_id |-> Absent, user_id |-> Absent,
                                          guess |-> Absent, is_correct |-> Absent],
              game_id |-> Absent, fails |-> FALSE, prev |-> <<>>]

NoResponse == [status |-> 0, kind |-> "none", rows |-> <<>>, message |-> NoError,
               allow |-> <<>>]

\* The guesses endpoint before any request, the table empty
InitGuesses ==
    /\ user_guesses = <<>>
    /\ response = NoResponse
    /\ guessLast = NoRequest

\* The values of a record: a number, a string, or undefined
Num(n) == [t |-> "number", n |-> n, s |-> ""]
Str(s) == [t |-> "string", n |-> 0, s |-> s]
Undefined == [t |-> "undefined", n |-> 0, s |-> ""]

\* A record: its keys in Object.keys order and their values
NoRecord == [keys |-> <<>>, val |-> <<>>]

NoOutput == [name |-> "", alt |-> "", cells |-> <<>>]

\* No render of cells taken yet
NoCells == [configurable |-> configurable, showAllStats |-> FALSE, type |-> "info",
            selected |-> <<>>, fullNameA |-> "", fullNameB |-> "",
            recordA |-> NoRecord, recordB |-> NoRecord,
            outA |-> NoOutput, outB |-> NoOutput, done |-> FALSE]

\* CreateGamePage before any save
InitSave ==
    /\ link = NoLink
    /\ saves = <<>>
    /\ games = <<>>

Init ==
    /\ InitSession
    /\ InitReveal(<<>>)
    /\ view = NoView
    /\ InitSearch
    /\ InitGuesses
    /\ InitSave
    /\ cells = NoCells

\* handlePlayerSelect, then the effect of PlayerStats on [playerId, configurable]:
\* loadPlayerData runs up to its await of fetchPlayerData
SelectPlayer(player) ==
    /\ player # selectedPlayer
    /\ Len(loads) < MaxLoads
    /\ selectedPlayer' = player
    /\ isLoading' = TRUE
    /\ error' = NoError
    /\ loads' = Append(loads, [player |-> player,
                               hittingEmpty |-> isEmpty(statsConfig["hitting"]),
                               pitchingEmpty |-> isEmpty(statsConfig["pitching"]),
                               raced |-> FALSE])
    /\ last' = [NoOp EXCEPT !.prev = statsConfig, !.loaded = loaded,
                            !.op = "SelectPlayer", !.player = player]
    /\ UNCHANGED outsideSession
    /\ UNCHANGED <<statsConfig, playerInfo, hittingStats, pitchingStats, loaded, ops>>

\* fetchPlayerData of the i-th pending load resolves with the athlete's data
LoadResolve(i) ==
    /\ i \in DOMAIN loads
    /\ LET load == loads[i]
           data == fetchPlayerData(load.player)
       IN  /\ playerInfo' = <<data.playerInfo>>
           /\ hittingStats' = data.hittingStats
           /\ pitchingStats' = data.pitchingStats
           /\ loaded' = load.player
           /\ statsConfig' = initialize(statsConfig, data, load)
           /\ isLoading' = FALSE
           /\ loads' = RemoveAt([j \in DOMAIN loads |->
                                   IF loads[j].player = load.player
                                   THEN [loads[j] EXCEPT !.raced = TRUE]
                                   ELSE loads[j]], i)
           /\ last' = [NoOp EXCEPT !.prev = statsConfig, !.loaded = loaded,
                                   !.op = "LoadResolve", !.player = load.player,
                                   !.raced = load.raced]
    /\ UNCHANGED outsideSession
    /\ UNCHANGED <<selectedPlayer, error, ops>>

\* fetchPlayerData of the i-th pending load throws, or returns no playerInfo
LoadReject(i) ==
    /\ i \in DOMAIN loads
    /\ error' = "Failed to load player data"
    /\ isLoading' = FALSE
    /\ loads' = RemoveAt(loads, i)
    /\ last' = [NoOp EXCEPT !.prev = statsConfig, !.loaded = loaded,
                            !.op = "LoadReject", !.player = loads[i].player]
    /\ UNCHANGED outsideSession
    /\ UNCHANGED <<selectedPlayer, statsConfig, playerInfo, hittingStats, pitchingStats,
                   loaded, ops>>

\* handleToggle(key, type) -> toggleAttribute(key, type)
Toggle(type, attribute) ==
    /\ rendered /\ configurable
    /\ ops < MaxOps
    /\ LET new == toggleAttribute(attribute, statsConfig[type].selected,
                                  statsConfig[type].deselected)
       IN  statsConfig' = handleStatsChange(statsConfig, type, new.selected, new.deselected)
    /\ ops' = ops + 1
    /\ last' = [NoOp EXCEPT !.prev = statsConfig, !.loaded = loaded,
                            !.op = "Toggle", !.type = type, !.key = attribute]
    /\ UNCHANGED outsideSession
    /\ UNCHANGED <<selectedPlayer, playerInfo, hittingStats, pitchingStats, isLoading,
                   error, loads, loaded>>

\* SectionToggle's onToggleAll(keys) -> handleToggleAll(type, keys)
ToggleAll(type, selectedKeys) ==
    /\ rendered /\ configurable
    /\ ops < MaxOps
    /\ statsConfig' = handleStatsChange(statsConfig, type, selectedKeys,
                                        deselectedKeysOf(allKeysOf(type), selectedKeys))
    /\ ops' = ops + 1
    /\ last' = [NoOp EXCEPT !.prev = statsConfig, !.loaded = loaded,
                            !.op = "ToggleAll", !.type = type, !.keys = selectedKeys]
    /\ UNCHANGED outsideSession
    /\ UNCHANGED <<selectedPlayer, playerInfo, hittingStats, pitchingStats, isLoading,
                   error, loads, loaded>>

Next ==
    \/ \E player \in Athletes : SelectPlayer(player)
    \/ \E i \in 1..MaxLoads : LoadResolve(i)
    \/ \E i \in 1..MaxLoads : LoadReject(i)
    \/ \E type \in Namespaces : \E attribute \in KeyUniverse(type) : Toggle(type, attribute)
    \/ \E type \in Namespaces : \E S \in SUBSET KeyUniverse(type) : ToggleAll(type, AsArray(S))

Spec == Init /\ [][Next]_vars

(***************************************************************************)
(* The operations without an athlete: PlayerStats mounted without a        *)
(* playerId, and saveGameConfiguration of CreateGamePage.                  *)
(***************************************************************************)
\* The effect of PlayerStats when playerId is missing: loadPlayerData
\* returns at its first check
LoadWithoutPlayer ==
    /\ selectedPlayer = NoPlayer
    /\ error' = "No player ID provided"
    /\ isLoading' = FALSE
    /\ last' = [NoOp EXCEPT !.prev = statsConfig, !.loaded = loaded,
                            !.op = "LoadWithoutPlayer", !.pending = loads]
    /\ UNCHANGED <<selectedPlayer, statsConfig, playerInfo, hittingStats, pitchingStats,
                   loads, loaded, ops>>
    /\ UNCHANGED saveVars
    /\ UNCHANGED outsideSave

\* saveGameConfiguration up to its await of fetch('/api/games')
SaveGameConfiguration ==
    /\ selectedPlayer # NoPlayer => Len(saves) + Len(games) < MaxSaves
    /\ saves' = IF selectedPlayer = NoPlayer
                THEN saves
                ELSE Append(saves, [player_id |-> selectedPlayer,
                                    stats_config |-> statsConfig])
    /\ last' = [NoOp EXCEPT !.prev = statsConfig, !.loaded = loaded,
                            !.op = "Save", !.player = selectedPlayer, !.pending = saves]
    /\ UNCHANGED <<selectedPlayer, statsConfig, playerInfo, hittingStats, pitchingStats,
                   isLoading, error, loads, loaded, ops>>
    /\ UNCHANGED <<link, games>>
    /\ UNCHANGED outsideSave

\* /api/games answers the i-th pending save with the game it created
SaveResolve(i) ==
    /\ i \in DOMAIN saves
    /\ games' = Append(games, saves[i])
    /\ link' = Len(games) + 1
    /\ saves' = RemoveAt(saves, i)
    /\ last' = [NoOp EXCEPT !.prev = statsConfig, !.loaded = loaded,
                            !.op = "SaveResolve", !.player = saves[i].player_id,
                            !.pending = saves]
    /\ UNCHANGED sessionVarsButLast
    /\ UNCHANGED outsideSave

\* The i-th pending save fails (the fetch throws or response.ok is false):
\* the catch logs the error
SaveReject(i) ==
    /\ i \in DOMAIN saves
    /\ saves' = RemoveAt(saves, i)
    /\ last' = [NoOp EXCEPT !.prev = statsConfig, !.loaded = loaded,
                            !.op = "SaveReject", !.player = saves[i].player_id,
                            !.pending = saves]
    /\ UNCHANGED sessionVarsButLast
    /\ UNCHANGED <<link, games>>
    /\ UNCHANGED outsideSave

NextInputs ==
    \/ LoadWithoutPlayer
    \/ SaveGameConfiguration
    \/ \E i \in 1..MaxSaves : SaveResolve(i)
    \/ \E i \in 1..MaxSaves : SaveReject(i)
    \/ \E player \in Athletes : SelectPlayer(player)
    \/ \E i \in 1..MaxLoads : LoadResolve(i)
    \/ \E i \in 1..MaxLoads : LoadReject(i)

SpecInputs == Init /\ [][NextInputs]_vars

(***************************************************************************)
(* useRevealedStats, one instance: PlayerStats keeps one per namespace and *)
(* hands it the namespace's selected list.                                 *)
(***************************************************************************)
\* The selected lists the hook may be handed: the arrays without repetition
\* over the keys of the info namespace
StatLists ==
    {arr \in UNION {[1..n -> KeyUniverse("info")] : n \in 0..Cardinality(KeyUniverse("info"))} :
        \A i, j \in DOMAIN arr : arr[i] = arr[j] => i = j}

\* stats.filter(stat => !previousStatsRef.current.has(stat))
newStatsOf(list, previous) == SelectSeq(list, LAMBDA stat : stat \notin previous)

\* clearTimeout that cancels nothing
clearTimeoutNoop(pending, handle) == pending

\* clearTimeout(handle) on the pending timers of the runtime
clearTimeout(pending, handle) == pending \ {handle}

\* if (timeoutRef.current) clearTimeout(timeoutRef.current)
clearIfArmed(pending, ref) == IF ref # NoTimer THEN clearTimeout(pending, ref) ELSE pending

\* The parent hands the hook a new selected list (a new array): the cleanup
\* of the effect's last run, then the effect on [stats]
ChangeStats(next) ==
    LET afterCleanup == clearIfArmed(timers, timeoutRef)
        newStats == newStatsOf(next, previousStatsRef)
    IN  /\ Len(newStats) > 0 => armed < MaxTimers
        /\ stats' = next
        /\ previousStatsRef' = ToSet(next)
        /\ IF Len(newStats) > 0
           THEN /\ newlyRevealed' = ToSet(newStats)
                /\ armed' = armed + 1
                /\ timeoutRef' = armed + 1
                /\ timers' = clearIfArmed(afterCleanup, timeoutRef) \cup {armed + 1}
           ELSE /\ timers' = afterCleanup
                /\ UNCHANGED <<newlyRevealed, armed, timeoutRef>>
        /\ revealLast' = [NoReveal EXCEPT !.op = "ChangeStats", !.prevStats = stats,
                                          !.prevRevealed = newlyRevealed,
                                          !.prevTimers = timers, !.prevRef = timeoutRef]
        /\ UNCHANGED outsideReveal

\* A pending timer fires: setNewlyRevealed(new Set())
TimerFire(handle) ==
    /\ handle \in timers
    /\ timers' = timers \ {handle}
    /\ newlyRevealed' = {}
    /\ revealLast' = [NoReveal EXCEPT !.op = "TimerFire", !.prevStats = stats,
                                      !.prevRevealed = newlyRevealed,
                                      !.prevTimers = timers, !.prevRef = timeoutRef,
                                      !.fired = handle]
    /\ UNCHANGED <<stats, timeoutRef, previousStatsRef, armed>>
    /\ UNCHANGED outsideReveal

InitMounted ==
    /\ InitSession
    /\ \E initial \in StatLists : InitReveal(initial)
    /\ view = NoView
    /\ InitSearch
    /\ InitGuesses
    /\ InitSave
    /\ cells = NoCells

NextReveal ==
    \/ \E next \in StatLists : ChangeStats(next)
    \/ \E handle \in 1..MaxTimers : TimerFire(handle)

SpecReveal == InitMounted /\ [][NextReveal]_vars

\* The timers of the runtime fire
SpecRevealFair == SpecReveal /\ WF_vars(\E handle \in 1..MaxTimers : TimerFire(handle))

(***************************************************************************)
(* One render of PlayerStats: the key lists of a namespace, computed from  *)
(* the props, the loaded record and the display-mapping table.             *)
(***************************************************************************)
ViewKeys == KeyUniverse("info")

\* The display-mapping tables: any keys mapped, an entry with an order in
\* 1..MaxOrder or without one
MappingEntries ==
    {[hasOrder |-> FALSE, order |-> 0]} \cup
    {[hasOrder |-> TRUE, order |-> o] : o \in 1..MaxOrder}

MappingTables == UNION {[D -> MappingEntries] : D \in SUBSET ViewKeys}

\* The props of a render, written into the record base: the selected keys
\* and, for deselected, none or the rest
ViewInputs(base) ==
    {[base EXCEPT !.configurable = c, !.showAllStats = a, !.type = t, !.obj = o,
                  !.mappings = m, !.selected = AsArray(S),
                  !.deselected = IF rest THEN AsArray(ViewKeys \ S) ELSE <<>>] :
        c \in BOOLEAN, a \in BOOLEAN, t \in {"info", "hitting"}, o \in StatLists,
        m \in MappingTables,
        S \in SUBSET ViewKeys, rest \in BOOLEAN}

\* The body of PlayerStats after the early returns: the sorted keys of the
\* namespace and the keys of its cells.  The info record is filtered first.
Render ==
    /\ ~view.done
    /\ LET shown == IF view.type = "info"
                    THEN filterVisibleStats(view.configurable, view.showAllStats,
                                            view.obj, view.selected)
                    ELSE view.obj
           sorted == getSortedKeys(shown, view.mappings)
       IN  view' = [view EXCEPT
                       !.sortedKeys = sorted,
                       !.visibleKeys = getVisibleKeys(view.configurable, view.showAllStats,
                                                      sorted, view.selected, view.deselected),
                       !.done = TRUE]
    /\ UNCHANGED outsideView

InitView ==
    /\ InitSession
    /\ InitReveal(<<>>)
    /\ view \in ViewInputs(NoView)
    /\ InitSearch
    /\ InitGuesses
    /\ InitSave
    /\ cells = NoCells

NextView == Render

SpecView == InitView /\ [][NextView]_vars

(***************************************************************************)
(* The cells PlayerStats renders: the header, the info grid and a row of   *)
(* the hitting or pitching table, for the records of two athletes under    *)
(* the same props.                                                         *)
(***************************************************************************)
\* JavaScript truthiness of a value
truthy(value) ==
    CASE value.t = "number" -> value.n # 0
      [] value.t = "string" -> value.s # ""
      [] OTHER -> FALSE

\* String(value)
String(value) ==
    CASE value.t = "number" -> ToString(value.n)
      [] value.t = "string" -> value.s
      [] OTHER -> "undefined"

\* record[key]
get(record, key) ==
    IF includes(record.keys, key) THEN record.val[key] ELSE Undefined

\* The text of a table cell without the test for 0
tableCellTextWithoutZero(visibleStats, key) ==
    String(IF truthy(get(visibleStats, key)) THEN get(visibleStats, key) ELSE Str(""))

\* The text of a cell of the hitting or pitching table: both branches of
\* the team tooltip, value === 0 ? "0" : String(value || '')
tableCellText(visibleStats, key) ==
    IF /\ key = "team"
       /\ truthy(get(visibleStats, "teamDetails"))
       /\ get(visibleStats, "teamDetails") # get(visibleStats, "team")
    THEN String(IF truthy(get(visibleStats, key)) THEN get(visibleStats, key) ELSE Str(""))
    ELSE IF get(visibleStats, key) = Num(0)
         THEN "0"
         ELSE String(IF truthy(get(visibleStats, key))
                     THEN get(visibleStats, key) ELSE Str(""))

\* The content of the tooltip of a team cell, "" when the cell has none
tableCellTooltip(visibleStats, key) ==
    IF /\ key = "team"
       /\ truthy(get(visibleStats, "teamDetails"))
       /\ get(visibleStats, "teamDetails") # get(visibleStats, "team")
    THEN String(get(visibleStats, "teamDetails"))
    ELSE ""

\* The text of a cell of the info grid: String(value)
infoCellText(visiblePlayerInfo, key) == String(get(visiblePlayerInfo, key))

\* What PlayerStats renders for a record under the props conf (configurable),
\* showAll (showAllStats) and selected: the header, and the cells of the info
\* grid (type "info") or of the table row
renderOf(conf, showAll, type, selected, fullName, record) ==
    LET shownKeys == filterVisibleStats(conf, showAll, record.keys, selected)
        visible == [keys |-> shownKeys, val |-> record.val]
        sorted == getSortedKeys(IF type = "info" THEN shownKeys ELSE record.keys,
                                playerInfoMappings)
        visibleKeys == getVisibleKeys(conf, showAll, sorted, selected, <<>>)
    IN  [name |-> fullName,
         alt |-> IF conf \/ showAll THEN fullName ELSE "Player",
         cells |-> [i \in DOMAIN visibleKeys |->
                      IF type = "info"
                      THEN [key |-> visibleKeys[i],
                            text |-> infoCellText(visible, visibleKeys[i]),
                            tooltip |-> ""]
                      ELSE [key |-> visibleKeys[i],
                            text |-> tableCellText(visible, visibleKeys[i]),
                            tooltip |-> tableCellTooltip(visible, visibleKeys[i])]]]

\* The values the provider may give a key
CellValues(key) ==
    CASE key = "age" -> {Num(0), Num(5), Undefined}
      [] key = "team" -> {Str("BOS"), Str("NYY")}
      [] OTHER -> {Str("BOS"), Str("Boston Red Sox")}

\* The records over the keys of the info namespace
Records ==
    {[keys |-> AsArray(D), val |-> v] :
        D \in SUBSET ViewKeys,
        v \in [ViewKeys -> UNION {CellValues(key) : key \in ViewKeys}]}

\* The records whose values fit their keys; the value of an absent key is undefined
WellFormed(record) ==
    \A key \in ViewKeys :
        IF includes(record.keys, key)
        THEN record.val[key] \in CellValues(key)
        ELSE record.val[key] = Undefined

\* The props and the two athletes of a render, written into the record base
CellInputs(base) ==
    {[base EXCEPT !.configurable = c, !.showAllStats = a, !.type = t,
                  !.selected = AsArray(S), !.fullNameA = "Joe", !.fullNameB = n,
                  !.recordA = ra, !.recordB = rb] :
        c \in BOOLEAN, a \in BOOLEAN, t \in {"info", "hitting"},
        S \in SUBSET ViewKeys, n \in {"Joe", "Jon"},
        ra \in {r \in Records : WellFormed(r)},
        rb \in {r \in Records : WellFormed(r)}}

\* One render of the component for each of the two athletes
RenderCells ==
    /\ ~cells.done
    /\ cells' = [cells EXCEPT
                    !.outA = renderOf(cells.configurable, cells.showAllStats, cells.type,
                                      cells.selected, cells.fullNameA, cells.recordA),
                    !.outB = renderOf(cells.configurable, cells.showAllStats, cells.type,
                                      cells.selected, cells.fullNameB, cells.recordB),
                    !.done = TRUE]
    /\ UNCHANGED outsideCells

InitCells ==
    /\ InitSession
    /\ InitReveal(<<>>)
    /\ view = NoView
    /\ InitSearch
    /\ InitGuesses
    /\ InitSave
    /\ cells \in CellInputs(NoCells)

NextCells == RenderCells

SpecCells == InitCells /\ [][NextCells]_vars

(***************************************************************************)
(* PlayerSearch.                                                           *)
(***************************************************************************)
\* fullName of the players the provider knows, as sequences of characters
fullNameOf(player) ==
    IF player = 1 THEN <<"j", "o", "e">> ELSE <<"j", "o", "n">>

\* The texts the user may type or paste
Queries == {<<>>, <<"j">>, <<"j", "o">>, <<"j", "o", "e">>, <<"j", "o", "n">>}

\* data.people of the provider's answer to /people/search?names=query: the
\* players whose name starts with the query
searchPeople(query) ==
    SelectSeq(<<1, 2>>, LAMBDA player :
        /\ Len(query) <= Len(fullNameOf(player))
        /\ SubSeq(fullNameOf(player), 1, Len(query)) = query)

\* onChange of the input -> handleSearch(value); searchPlayers(value) runs
\* up to its await of fetch
HandleSearch(value) ==
    /\ value # search
    /\ Len(value) >= 2 => sent < MaxRequests
    /\ search' = value
    /\ IF Len(value) >= 2
       THEN /\ loading' = TRUE
            /\ requests' = Append(requests, value)
            /\ sent' = sent + 1
            /\ UNCHANGED open
       ELSE /\ open' = FALSE
            /\ UNCHANGED <<loading, requests, sent>>
    /\ searchLast' = [NoSearch EXCEPT !.op = "handleSearch", !.value = value,
                                      !.prevPlayers = players, !.prevSent = sent,
                                      !.prevRequests = requests]
    /\ UNCHANGED <<players, picked>>
    /\ UNCHANGED outsideSearch

\* The provider answers the i-th pending request: the rest of searchPlayers
SearchResolve(i) ==
    /\ i \in DOMAIN requests
    /\ players' = searchPeople(requests[i])
    /\ open' = TRUE
    /\ loading' = FALSE
    /\ requests' = RemoveAt(requests, i)
    /\ searchLast' = [NoSearch EXCEPT !.op = "resolve", !.value = requests[i],
                                      !.prevPlayers = players, !.prevSent = sent,
                                      !.prevRequests = requests]
    /\ UNCHANGED <<search, sent, picked>>
    /\ UNCHANGED outsideSearch

\* The i-th pending request fails: the catch and finally of searchPlayers
SearchReject(i) ==
    /\ i \in DOMAIN requests
    /\ players' = <<>>
    /\ loading' = FALSE
    /\ requests' = RemoveAt(requests, i)
    /\ searchLast' = [NoSearch EXCEPT !.op = "reject", !.value = requests[i],
                                      !.prevPlayers = players, !.prevSent = sent,
                                      !.prevRequests = requests]
    /\ UNCHANGED <<open, search, sent, picked>>
    /\ UNCHANGED outsideSearch

\* A click on a row of the result list -> handleSelect(player.id, player.fullName)
HandleSelect(player) ==
    /\ open /\ ~loading /\ includes(players, player)
    /\ open' = FALSE
    /\ search' = fullNameOf(player)
    /\ picked' = player
    /\ searchLast' = [NoSearch EXCEPT !.op = "handleSelect", !.value = fullNameOf(player),
                                      !.prevPlayers = players, !.prevSent = sent,
                                      !.prevRequests = requests]
    /\ UNCHANGED <<players, loading, requests, sent>>
    /\ UNCHANGED outsideSearch

\* onFocus of the input
Focus ==
    /\ Len(search) >= 2 /\ ~open
    /\ open' = TRUE
    /\ searchLast' = [NoSearch EXCEPT !.op = "focus", !.value = search,
                                      !.prevPlayers = players, !.prevSent = sent,
                                      !.prevRequests = requests]
    /\ UNCHANGED <<search, players, loading, requests, sent, picked>>
    /\ UNCHANGED outsideSearch

NextSearch ==
    \/ \E value \in Queries : HandleSearch(value)
    \/ \E i \in 1..MaxRequests : SearchResolve(i)
    \/ \E i \in 1..MaxRequests : SearchReject(i)
    \/ \E player \in {1, 2} : HandleSelect(player)
    \/ Focus

SpecSearch == Init /\ [][NextSearch]_vars

(***************************************************************************)
(* The guesses endpoint (api/games/guesses) and the table it writes.       *)
(***************************************************************************)
GameIds == {"g1", "g2"}
UserIds == {"u1"}

\* The columns of UserGuess that have neither "?" nor a default
RequiredColumns == {"game_id", "user_id", "guess", "is_correct"}

\* The bodies of a POST: every field absent or present (guess: athlete 1)
Bodies ==
    [game_id : {Absent} \cup {<<g>> : g \in GameIds},
     user_id : {Absent} \cup {<<u>> : u \in UserIds},
     guess : {Absent, <<1>>},
     is_correct : {Absent} \cup {<<b>> : b \in BOOLEAN}]

\* supabase.from('user_guesses').insert([row]): the provider refuses a row
\* with a required column absent, or fails for a reason of its own (fails);
\* data is the stored row or, when the client asks for no representation
\* (returning = FALSE), null
insert(table, row, fails, returning) ==
    IF fails
    THEN [error |-> "connection failed", data |-> <<>>, isNull |-> TRUE, table |-> table]
    ELSE IF \E column \in RequiredColumns : row[column] = Absent
    THEN [error |-> "null value violates not-null constraint", data |-> <<>>,
          isNull |-> TRUE, table |-> table]
    ELSE LET stored == [id |-> Len(table) + 1, game_id |-> row.game_id,
                        user_id |-> row.user_id, guess |-> row.guess,
                        is_correct |-> row.is_correct]
         IN  [error |-> NoError, data |-> IF returning THEN <<stored>> ELSE <<>>,
              isNull |-> ~returning, table |-> Append(table, stored)]

\* supabase.from('user_guesses').select('*').eq('game_id', game_id)
select(table, game_id, fails) ==
    IF fails
    THEN [error |-> "connection failed", data |-> <<>>]
    ELSE [error |-> NoError,
          data |-> SelectSeq(table, LAMBDA row : row.game_id = game_id)]

\* The POST case that answers 201 whatever insert reports
handlerPostIgnoringError(table, body, fails, returning) ==
    LET result == insert(table, [game_id |-> body.game_id, user_id |-> body.user_id,
                                 guess |-> body.guess, is_correct |-> body.is_correct],
                         fails, returning)
    IN  [table |-> result.table,
         response |-> [NoResponse EXCEPT !.status = 201,
                          !.kind = IF result.isNull THEN "null" ELSE "rows",
                          !.rows = result.data]]

\* case 'POST' of handler
handlerPost(table, body, fails, returning) ==
    LET result == insert(table, [game_id |-> body.game_id, user_id |-> body.user_id,
                                 guess |-> body.guess, is_correct |-> body.is_correct],
                         fails, returning)
    IN  [table |-> result.table,
         response |->
            IF result.error # NoError
            THEN [NoResponse EXCEPT !.status = 400, !.kind = "error",
                                    !.message = result.error]
            ELSE [NoResponse EXCEPT !.status = 201,
                                    !.kind = IF result.isNull THEN "null" ELSE "rows",
                                    !.rows = result.data]]

\* case 'GET' of handler
handlerGet(table, game_id, fails) ==
    LET result == select(table, game_id, fails)
    IN  IF result.error # NoError
        THEN [NoResponse EXCEPT !.status = 400, !.kind = "error", !.message = result.error]
        ELSE [NoResponse EXCEPT !.status = 200, !.kind = "rows", !.rows = result.data]

\* A POST request to the endpoint
Post(body, fails, returning) ==
    LET out == handlerPost(user_guesses, body, fails, returning)
    IN  /\ Len(out.table) <= MaxGuesses
        /\ user_guesses' = out.table
        /\ response' = out.response
        /\ guessLast' = [NoRequest EXCEPT !.method = "POST", !.body = body,
                                          !.fails = fails, !.prev = user_guesses]
        /\ UNCHANGED outsideGuesses

\* A GET request to the endpoint, with or without game_id in the query
Get(game_id, fails) ==
    /\ response' = handlerGet(user_guesses, game_id, fails)
    /\ guessLast' = [NoRequest EXCEPT !.method = "GET", !.game_id = game_id,
                                      !.fails = fails, !.prev = user_guesses]
    /\ UNCHANGED user_guesses
    /\ UNCHANGED outsideGuesses

\* The default case without the Allow header
UnsupportedWithoutAllow(method) ==
    /\ response' = [NoResponse EXCEPT !.status = 405, !.kind = "text", !.message = method]
    /\ guessLast' = [NoRequest EXCEPT !.method = method, !.prev = user_guesses]
    /\ UNCHANGED user_guesses
    /\ UNCHANGED outsideGuesses

\* A request with a method the switch has no case for
Unsupported(method) ==
    /\ response' = [NoResponse EXCEPT !.status = 405, !.kind = "text",
                                     !.message = method, !.allow = <<"POST", "GET">>]
    /\ guessLast' = [NoRequest EXCEPT !.method = method, !.prev = user_guesses]
    /\ UNCHANGED user_guesses
    /\ UNCHANGED outsideGuesses

NextGuesses ==
    \/ \E body \in Bodies : \E fails, returning \in BOOLEAN : Post(body, fails, returning)
    \/ \E game_id \in {Absent} \cup {<<g>> : g \in GameIds} : \E fails \in BOOLEAN :
          Get(game_id, fails)
    \/ \E method \in {"PUT", "DELETE"} : Unsupported(method)

SpecGuesses == Init /\ [][NextGuesses]_vars

(***************************************************************************)
(* Vocabulary of the properties.                                           *)
(***************************************************************************)
Sel(type) == ToSet(statsConfig[type].selected)
Desel(type) == ToSet(statsConfig[type].deselected)
PrevSel(type) == ToSet(last.prev[type].selected)
PrevDesel(type) == ToSet(last.prev[type].deselected)

\* The full key set of a namespace as handleToggleAll takes it: the keys of
\* the loaded (first) record that have a display mapping
fullKeySet(type) == ToSet(allKeysOf(type))

\* All keys of the loaded (first) record of a namespace, mapped or not
recordKeySet(type) ==
    IF type = "info"
    THEN (IF playerInfo # <<>> THEN ToSet(playerInfo[1]) ELSE {})
    ELSE IF type = "hitting"
    THEN (IF Len(hittingStats) > 0 THEN ToSet(hittingStats[1]) ELSE {})
    ELSE (IF Len(pitchingStats) > 0 THEN ToSet(pitchingStats[1]) ELSE {})

\* The keys loadPlayerData partitions when it initializes a namespace
initializedKeySet(type) ==
    IF type = "info" THEN recordKeySet(type) ELSE fullKeySet(type)

Pair == {"team", "teamDetails"}

(***************************************************************************)
(* C1.  In a namespace whose full key set holds both "team" and            *)
(* "teamDetails", "teamDetails" is selected whenever "team" is selected    *)
(* and deselected whenever "team" is deselected, in every reachable state. *)
(* The code breaks it: handleToggleAll(type, ["team"]) leaves              *)
(* "teamDetails" in neither list.                                          *)
(***************************************************************************)
C1_PairedFieldInvariant ==
    \A type \in Namespaces :
        Pair \subseteq fullKeySet(type) =>
            /\ "team" \in Sel(type) => "teamDetails" \in Sel(type)
            /\ "team" \in Desel(type) => "teamDetails" \in Desel(type)

(***************************************************************************)
(* C2.  Once the records are loaded and the lists initialized, every key   *)
(* of a namespace's full key set is in exactly one of selected and         *)
(* deselected.  The code breaks it the way it breaks C1.                   *)
(***************************************************************************)
C2_ExactlyOneSide ==
    playerInfo # <<>> =>
        \A type \in Namespaces : \A key \in fullKeySet(type) :
            (key \in Sel(type)) # (key \in Desel(type))

(***************************************************************************)
(* C3.  No key that is absent from the namespace's key set (here, taken    *)
(* at its widest: every key of the loaded record) is in selected or in     *)
(* deselected.  The code breaks it: toggleAttribute pushes whatever key it *)
(* is handed, and "teamDetails" along with "team".                         *)
(***************************************************************************)
C3_NoForeignKey ==
    \A type \in Namespaces : (Sel(type) \cup Desel(type)) \subseteq recordKeySet(type)

(***************************************************************************)
(* C4.  Right after the initialization of never-set lists, in each         *)
(* namespace selected and deselected are disjoint and their union is the   *)
(* set of mapped keys of the loaded record.  The code breaks it for info:  *)
(* it deselects Object.keys(data.playerInfo), mapped or not.               *)
(***************************************************************************)
C4_InitializePartitionsMappedKeys ==
    (last.op = "LoadResolve" /\ \A type \in Namespaces : isEmpty(last.prev[type])) =>
        \A type \in Namespaces :
            /\ Sel(type) \cap Desel(type) = {}
            /\ Sel(type) \cup Desel(type) = fullKeySet(type)

(***************************************************************************)
(* C5.  A data load that completes while a namespace's lists are not empty *)
(* leaves that namespace's lists as they were.  It is stated here for the  *)
(* repeated load only, the load of the athlete whose records are already   *)
(* held.  The code breaks it for info, which it rewrites on every load.    *)
(***************************************************************************)
C5_LoadKeepsNonEmptyState ==
    (last.op = "LoadResolve" /\ last.player = last.loaded) =>
        \A type \in Namespaces :
            ~isEmpty(last.prev[type]) => statsConfig[type] = last.prev[type]

(***************************************************************************)
(* C6.  Of two loads of one athlete that were pending together, the one    *)
(* that completes second writes to no namespace.  The code breaks it: the  *)
(* second completion rewrites info, and hitting and pitching too, since    *)
(* its guard reads the lists as they were when the load was started.       *)
(***************************************************************************)
C6_SecondLoadWritesNothing ==
    (last.op = "LoadResolve" /\ last.raced) => statsConfig = last.prev

(***************************************************************************)
(* C7.  Right after Toggle("team"), whatever the lists were before,        *)
(* "team" and "teamDetails" are both in selected and neither in            *)
(* deselected, or both in deselected and neither in selected.              *)
(***************************************************************************)
C7_TeamDetailsFollowsTeam ==
    (last.op = "Toggle" /\ last.key = "team") =>
        \/ Pair \subseteq Sel(last.type) /\ Pair \cap Desel(last.type) = {}
        \/ Pair \subseteq Desel(last.type) /\ Pair \cap Sel(last.type) = {}

\* Toggle("team") has deselected "team" from lists that held "teamDetails" in neither
C7_Witness ==
    /\ last.op = "Toggle" /\ last.key = "team" /\ last.type = "info"
    /\ "team" \in PrevSel("info")
    /\ "teamDetails" \notin PrevSel("info") \cup PrevDesel("info")
    /\ Pair \subseteq Desel("info")

(***************************************************************************)
(* C8.  Toggle(key, ns) moves the key from the list that holds it to the   *)
(* other list; every other key of ns (but "teamDetails" when the key is    *)
(* "team") keeps its membership and the other namespaces keep their lists. *)
(* From info = (none selected; age, team, teamDetails deselected),         *)
(* Toggle("team") gives ({team, teamDetails}, {age}) and a second          *)
(* Toggle("team") gives back (none, {age, team, teamDetails}).             *)
(***************************************************************************)
C8_ToggleMovesOneKey ==
    last.op = "Toggle" =>
        LET type == last.type
            key == last.key
        IN  /\ key \in PrevSel(type) => key \in Desel(type) /\ key \notin Sel(type)
            /\ key \in PrevDesel(type) => key \in Sel(type) /\ key \notin Desel(type)
            /\ \A other \in ToSet(KeyOrder) \ {key} :
                   \/ key = "team" /\ other = "teamDetails"
                   \/ /\ (other \in Sel(type)) = (other \in PrevSel(type))
                      /\ (other \in Desel(type)) = (other \in PrevDesel(type))
            /\ \A ns \in Namespaces \ {type} : statsConfig[ns] = last.prev[ns]
            /\ (type = "info" /\ key = "team" /\ PrevSel(type) = {}
                  /\ PrevDesel(type) = {"age", "team", "teamDetails"})
               => Sel(type) = {"team", "teamDetails"} /\ Desel(type) = {"age"}
            /\ (type = "info" /\ key = "team" /\ PrevSel(type) = {"team", "teamDetails"}
                  /\ PrevDesel(type) = {"age"})
               => Sel(type) = {} /\ Desel(type) = {"age", "team", "teamDetails"}

\* The second Toggle("team") of the scenario, with hitting initialized
C8_Witness ==
    /\ last.op = "Toggle" /\ last.key = "team" /\ last.type = "info"
    /\ PrevSel("info") = {"team", "teamDetails"} /\ PrevDesel("info") = {"age"}
    /\ Sel("info") = {} /\ Desel("info") = {"age", "team", "teamDetails"}
    /\ Sel("hitting") = {"avg"}

(***************************************************************************)
(* C9.  After ToggleAll(ns, S), selected is S and deselected is the        *)
(* complement of S in the full key set; ToggleAll(ns, {}) deselects the    *)
(* full key set, which is the key set the initialization partitioned.      *)
(* The code breaks it: with "team" in S and "teamDetails" not,             *)
(* "teamDetails" is left out of deselected; and for info the               *)
(* initialization partitions every key of the record, handleToggleAll the  *)
(* mapped ones.                                                            *)
(***************************************************************************)
C9_ToggleAllSetsPartition ==
    last.op = "ToggleAll" =>
        LET type == last.type
            S == ToSet(last.keys)
        IN  /\ Sel(type) = S
            /\ Desel(type) = fullKeySet(type) \ S
            /\ S = {} => Desel(type) = initializedKeySet(type)

(***************************************************************************)
(* C10.  After ToggleAll(ns, S) with "team" in S, "teamDetails" is not in  *)
(* deselected, whether or not it is in S.                                  *)
(***************************************************************************)
C10_TeamSelectedKeepsDetailsOut ==
    (last.op = "ToggleAll" /\ includes(last.keys, "team")) =>
        "teamDetails" \notin Desel(last.type)

\* ToggleAll(info, ["team"]) on a record that has a mapped "teamDetails"
C10_Witness ==
    /\ last.op = "ToggleAll" /\ last.type = "info" /\ last.keys = <<"team">>
    /\ "teamDetails" \in fullKeySet("info")
    /\ "teamDetails" \notin Sel("info") \cup Desel("info")

(***************************************************************************)
(* C11.  The initialization of info in author mode leaves selected empty   *)
(* and puts every key of the biographical record in deselected.            *)
(***************************************************************************)
C11_InfoStartsDeselected ==
    last.op = "LoadResolve" =>
        /\ statsConfig["info"].selected = <<>>
        /\ statsConfig["info"].deselected = playerInfo[1]
        /\ Desel("info") = recordKeySet("info")

\* The first load of the athlete whose biography has an unmapped key
C11_Witness ==
    /\ last.op = "LoadResolve" /\ isEmpty(last.prev["info"])
    /\ Desel("info") = {"imageUrl", "team"} /\ Sel("info") = {}

(***************************************************************************)
(* C12.  The initialization of hitting (pitching) from empty lists selects *)
(* exactly the mapped keys of the first season record and deselects none;  *)
(* an unmapped key of the record is in neither list.                       *)
(***************************************************************************)
C12_StatsStartSelected ==
    last.op = "LoadResolve" =>
        /\ (isEmpty(last.prev["hitting"]) /\ Len(hittingStats) > 0) =>
              /\ Sel("hitting") = {k \in ToSet(hittingStats[1]) : k \in DOMAIN hittingStatMappings}
              /\ Desel("hitting") = {}
        /\ (isEmpty(last.prev["pitching"]) /\ Len(pitchingStats) > 0) =>
              /\ Sel("pitching") = {k \in ToSet(pitchingStats[1]) : k \in DOMAIN pitchingStatMappings}
              /\ Desel("pitching") = {}

(***************************************************************************)
(* C13.  After every change of the selected list the reveal set is the     *)
(* new list minus the list before the change; a change that adds no key    *)
(* leaves the reveal set empty.                                            *)
(***************************************************************************)
C13_RevealIsDifference ==
    revealLast.op = "ChangeStats" =>
        newlyRevealed = ToSet(stats) \ ToSet(revealLast.prevStats)

(***************************************************************************)
(* C14.  A reveal set that is not empty becomes empty again, whatever      *)
(* changes of the selected list happen in between, when pending timers     *)
(* fire.                                                                   *)
(***************************************************************************)
C14_RevealExpires == (newlyRevealed # {}) ~> (newlyRevealed = {})

(***************************************************************************)
(* C15.  At most one timer is pending, and it is the one armed last: a     *)
(* reveal cancels the timer of the reveal before it, and the timer that    *)
(* fires is never one armed for an earlier reveal.                         *)
(***************************************************************************)
C15_OneTimerPending ==
    /\ Cardinality(timers) <= 1
    /\ timers \subseteq {timeoutRef}
    /\ revealLast.op = "TimerFire" =>
          /\ revealLast.fired = timeoutRef
          /\ revealLast.prevTimers = {revealLast.fired}

\* A reveal arrived while the timer of an earlier reveal was pending
C15_Witness ==
    /\ revealLast.op = "ChangeStats"
    /\ revealLast.prevTimers = {revealLast.prevRef}
    /\ timeoutRef # revealLast.prevRef
    /\ timers = {timeoutRef}

\* The keys of the rendered record that have a display mapping
viewFullKeySet == {key \in ToSet(view.obj) : key \in DOMAIN view.mappings}

(***************************************************************************)
(* C16.  In restricted mode the visible keys are exactly the keys of the   *)
(* full key set that are selected, without teamDetails.                    *)
(***************************************************************************)
C16_RestrictedShowsSelected ==
    (view.done /\ ~view.configurable /\ ~view.showAllStats) =>
        /\ ToSet(view.visibleKeys) =
              (viewFullKeySet \cap ToSet(view.selected)) \ {"teamDetails"}
        /\ Len(view.visibleKeys) = Cardinality(ToSet(view.visibleKeys))

\* Restricted render with teamDetails selected and mapped, and a selected key shown
C16_Witness ==
    /\ view.done /\ ~view.configurable /\ ~view.showAllStats
    /\ "teamDetails" \in viewFullKeySet \cap ToSet(view.selected)
    /\ "age" \in viewFullKeySet \ ToSet(view.selected)
    /\ view.visibleKeys = <<"team">>

(***************************************************************************)
(* C17.  In author mode or display mode the visible keys are all keys of   *)
(* the full key set except teamDetails, whatever selected and deselected.  *)
(***************************************************************************)
C17_AuthorShowsAll ==
    (view.done /\ (view.configurable \/ view.showAllStats)) =>
        /\ ToSet(view.visibleKeys) = viewFullKeySet \ {"teamDetails"}
        /\ Len(view.visibleKeys) = Cardinality(ToSet(view.visibleKeys))

\* Display-mode render with nothing selected that shows two keys
C17_Witness ==
    /\ view.done /\ ~view.configurable /\ view.showAllStats
    /\ view.selected = <<>> /\ ToSet(view.deselected) = ViewKeys
    /\ viewFullKeySet = ViewKeys
    /\ ToSet(view.visibleKeys) = {"age", "team"}

(***************************************************************************)
(* C18.  getSortedKeys orders the keys by the order of their mapping       *)
(* entries, the keys whose entry has no order behind all keys whose entry  *)
(* has one; the cells are enumerated in the same order.                    *)
(***************************************************************************)
C18_SortedByPriority ==
    view.done =>
        /\ \A i, j \in DOMAIN view.sortedKeys :
              i < j =>
                 LET a == view.mappings[view.sortedKeys[i]]
                     b == view.mappings[view.sortedKeys[j]]
                 IN  /\ a.hasOrder \/ ~b.hasOrder
                     /\ (a.hasOrder /\ b.hasOrder) => a.order <= b.order
        /\ view.visibleKeys = SelectSeq(view.sortedKeys,
                                        LAMBDA key : key \in ToSet(view.visibleKeys))

(***************************************************************************)
(* C19.  A query shorter than 2 characters, typed after any earlier        *)
(* queries, sends no request to the provider and leaves the result list    *)
(* empty.                                                                  *)
(***************************************************************************)
C19_ShortQueryEmptiesResults ==
    (searchLast.op = "handleSearch" /\ Len(searchLast.value) < 2) =>
        /\ sent = searchLast.prevSent
        /\ requests = searchLast.prevRequests
        /\ players = <<>>

C21_PostAnswersWithRecord ==
    guessLast.method = "POST" =>
        IF user_guesses # guessLast.prev
        THEN /\ response.status = 201
             /\ response.kind = "rows"
             /\ response.rows = <<user_guesses[Len(user_guesses)]>>
        ELSE /\ response.status = 400
             /\ response.kind = "error"
             /\ response.message # NoError

(***************************************************************************)
(* C22.  No request removes or changes a stored guess: the table only      *)
(* grows, a GET or an unsupported method (answered 405 with Allow: POST,   *)
(* GET) leaves it as it was, and a successful POST adds exactly one row.   *)
(***************************************************************************)
C22_GuessesOnlyGrow ==
    /\ Len(guessLast.prev) <= Len(user_guesses)
    /\ SubSeq(user_guesses, 1, Len(guessLast.prev)) = guessLast.prev
    /\ guessLast.method = "POST" =>
          Len(user_guesses) = Len(guessLast.prev) + (IF response.status = 201 THEN 1 ELSE 0)
    /\ guessLast.method \notin {"none", "POST"} => user_guesses = guessLast.prev
    /\ guessLast.method \notin {"none", "POST", "GET"} =>
          /\ response.status = 405
          /\ response.allow = <<"POST", "GET">>

\* A second guess was stored behind the first, and an unsupported method left both
C22_Witness ==
    /\ guessLast.method = "DELETE"
    /\ Len(user_guesses) = 2
    /\ user_guesses[1].id # user_guesses[2].id
    /\ response.status = 405

\* What PlayerSearch renders below the input: nothing, the loading text, the
\* rows of the result list, or the text of an empty result
searchShown ==
    IF ~open THEN "nothing"
    ELSE IF loading THEN "Loading..."
    ELSE IF Len(players) > 0 THEN "rows"
    ELSE IF Len(search) >= 2 THEN "No players found"
    ELSE "nothing"

(***************************************************************************)
(* C23.  After a failed call to the Statistics Provider the component      *)
(* shows an error message, and the failed request is not sent again.       *)
(* For the load: error is set and the loading view is gone.  For the       *)
(* search: what is shown is neither nothing nor the text of an empty       *)
(* result.                                                                 *)
(***************************************************************************)
C23_ProviderFailureShown ==
    /\ last.op = "LoadReject" => (error # NoError /\ ~isLoading)
    /\ searchLast.op = "reject" =>
          /\ searchShown \notin {"nothing", "No players found"}
          /\ sent = searchLast.prevSent

(***************************************************************************)
(* C24.  Without an athlete (no playerId on load, no selected player on    *)
(* save) or with an empty search query the operation makes no call to the  *)
(* provider or to the persistence layer and sets no error.                 *)
(***************************************************************************)
C24_MissingInputIsNoError ==
    /\ last.op = "LoadWithoutPlayer" => (loads = last.pending /\ error = NoError)
    /\ (last.op = "Save" /\ last.player = NoPlayer) =>
          (saves = last.pending /\ error = NoError)
    /\ (searchLast.op = "handleSearch" /\ searchLast.value = <<>>) =>
          (sent = searchLast.prevSent /\ requests = searchLast.prevRequests)

\* The cells of the render of athlete A whose value in the record is value
cellsOf(value) ==
    {i \in DOMAIN cells.outA.cells : get(cells.recordA, cells.outA.cells[i].key) = value}

(***************************************************************************)
(* C25.  In restricted mode the cell of a visible key whose value is the   *)
(* number 0 has the text "0", in the info grid and in the tables.          *)
(***************************************************************************)
C25_ZeroRendersAsZero ==
    (cells.done /\ ~cells.configurable /\ ~cells.showAllStats) =>
        \A i \in cellsOf(Num(0)) : cells.outA.cells[i].text = "0"

\* A restricted row of the table with a selected key of value 0 beside a team
C25_Witness ==
    /\ cells.done /\ ~cells.configurable /\ ~cells.showAllStats
    /\ cells.type = "hitting"
    /\ cellsOf(Num(0)) # {}
    /\ Len(cells.outA.cells) = 2

(***************************************************************************)
(* C26.  The cell of a visible key whose value is missing or undefined     *)
(* has the placeholder dash as text.                                       *)
(***************************************************************************)
C26_UndefinedRendersAsDash ==
    cells.done => \A i \in cellsOf(Undefined) : cells.outA.cells[i].text = "-"

\* Two records agree on the keys a restricted render may show
agreeOnSelected ==
    \A key \in ViewKeys :
        (\/ includes(cells.selected, key)
         \/ key = "teamDetails" /\ includes(cells.selected, "team")) =>
            /\ includes(cells.recordA.keys, key) <=> includes(cells.recordB.keys, key)
            /\ get(cells.recordA, key) = get(cells.recordB, key)

(***************************************************************************)
(* C27.  In restricted mode two athletes whose records agree on the        *)
(* selected keys (and on teamDetails when team is selected) are rendered   *)
(* identically: no value of an unselected field, the fullName included,    *)
(* is shown.                                                               *)
(***************************************************************************)
C27_RestrictedRenderHidesRest ==
    (cells.done /\ ~cells.configurable /\ ~cells.showAllStats /\ agreeOnSelected) =>
        cells.outA = cells.outB

(***************************************************************************)
(* C28.  Once the load of a second, different athlete has completed, the   *)
(* hitting and pitching lists hold only mapped keys of that athlete's      *)
(* records: no key of the first athlete is carried over.                   *)
(***************************************************************************)
C28_SecondAthleteStartsFresh ==
    (/\ last.op = "LoadResolve"
     /\ last.loaded # NoPlayer
     /\ last.loaded # last.player
     /\ last.player = selectedPlayer
     /\ loads = <<>>) =>
        \A type \in {"hitting", "pitching"} :
            (Sel(type) \cup Desel(type)) \subseteq fullKeySet(type)

(***************************************************************************)
(* C29.  When the athlete changes while a load is pending, then after all  *)
(* responses have arrived the records held and the initialized lists are   *)
(* those of the athlete selected last.                                     *)
(***************************************************************************)
C29_LatestAthleteWins ==
    (/\ last.op = "LoadResolve"
     /\ loads = <<>>
     /\ error = NoError) =>
        /\ loaded = selectedPlayer
        /\ playerInfo = <<fetchPlayerData(selectedPlayer).playerInfo>>
        /\ hittingStats = fetchPlayerData(selectedPlayer).hittingStats
        /\ pitchingStats = fetchPlayerData(selectedPlayer).pitchingStats
        /\ Desel("info") = ToSet(fetchPlayerData(selectedPlayer).playerInfo)

(***************************************************************************)
(* C30.  When searches overlap, then after all responses have arrived the  *)
(* result list is the response to the query typed last, and loading is     *)
(* false only when no request is pending.                                  *)
(***************************************************************************)
C30_LatestQueryWins ==
    /\ ~loading => requests = <<>>
    /\ (/\ searchLast.op = "resolve"
        /\ requests = <<>>
        /\ picked = NoPlayer
        /\ Len(search) >= 2) =>
          players = searchPeople(search)

====
